---- MODULE Spec2Model ----
(***************************************************************************)
(* A model of the authoritative game server of bas_web_game                *)
(* (src/server/server.js, the collision map in src/server/health.js, the   *)
(* schema in src/unnamed/part_002 and the store in src/unnamed/part_003).  *)
(*                                                                         *)
(* Numbers.  JavaScript numbers are doubles; the model is fixed point:     *)
(* every length is an integer count of 1/Scale pixel (Scale = 100, the     *)
(* precision broadcastState rounds to) and every velocity an integer       *)
(* count of 1/Scale pixel per second.  Irrational values (the normalised   *)
(* diagonal speed, Math.hypot) and the halving of the hug's average are    *)
(* rounded down to that unit.  Date.now() is the variable now, in          *)
(* milliseconds since the server started.                                  *)
(*                                                                         *)
(* Identifiers.  A player id `player_<time>_<random>` is modelled by the   *)
(* position of the record in gameState.players (a Map, which iterates in   *)
(* insertion order and never deletes): ids are 1..Len(players), and 0      *)
(* stands for undefined/null.                                              *)
(***************************************************************************)
EXTENDS Integers, Sequences, FiniteSets, TLC

----------------------------------------------------------------------------
(* Bounds of the model *)

\* connections that may be open at once (wss.clients)
NumClients == 2
\* player records the Map may hold
MaxPlayers == 3
\* gameTick runs
MaxTick == 2
\* advances of the clock, each of ClockStep milliseconds
MaxClock == 1
\* input sequence numbers a client may send
MaxSeq == 1
\* display objects the registry may hold
MaxObjects == 2

----------------------------------------------------------------------------
(* Program constants *)

Scale == 100
TICK_RATE == 20
TICK_INTERVAL == 1000 \div TICK_RATE
PLAYER_SPEED == 125
FOLLOWER_SPEED == 110
MAX_PLAYERS == 2
TILE_SIZE == 16
MAP_COLS == 240
MAP_ROWS == 180
WORLD_WIDTH == MAP_COLS * TILE_SIZE * Scale
WORLD_HEIGHT == MAP_ROWS * TILE_SIZE * Scale
OBJECT_WIDTH == 48
OBJECT_HEIGHT == 72
PLAYER_RADIUS == 10
HUG_PROXIMITY_THRESHOLD == 60
HUG_DURATION == 2000
BENCH_X == 2760
BENCH_Y == 1511
BENCH_SEAT_OFFSET == 14
BENCH_SIT_DISTANCE == 100
STAND_OFFSET == 50
\* handleResetPosition's target, 1604.97 and 802.74 pixels
RESET_X == 160497
RESET_Y == 80274
\* SPAWN_POINTS, as <<col, row>>
SPAWN_POINTS == << <<20, 10>>, <<21, 10>> >>
\* the bench's static collider of worldMap.js: BENCH_WIDTH * BENCH_COLLISION_SCALE
\* = 64 * 2.5 * 0.4 = 64 and BENCH_HEIGHT * BENCH_COLLISION_SCALE = 32 pixels
BENCH_COLLIDER_WIDTH == 64
BENCH_COLLIDER_HEIGHT == 32
BENCH_COLLIDER_DROP == 5

\* the clock advances by the length of a hug: a tick finds a hug unexpired
\* (it runs in the millisecond the hug started) or expiring exactly now
ClockStep == HUG_DURATION

----------------------------------------------------------------------------
(* Arithmetic helpers *)

Abs(n) == IF n < 0 THEN -n ELSE n

Min(a, b) == IF a < b THEN a ELSE b

Max(a, b) == IF a > b THEN a ELSE b

Sign(n) == IF n < 0 THEN -1 ELSE IF n > 0 THEN 1 ELSE 0

RECURSIVE IsqrtIter(_, _, _)
IsqrtIter(n, lo, hi) ==
    IF lo >= hi THEN lo
    ELSE LET mid == (lo + hi + 1) \div 2
         IN IF mid * mid <= n THEN IsqrtIter(n, mid, hi)
            ELSE IsqrtIter(n, lo, mid - 1)

\* Math.sqrt, rounded down; n < 2^31
Isqrt(n) == IsqrtIter(n, 0, 46340)

\* Math.sqrt(dx*dx + dy*dy) > limit, without squaring a number above 2^15
FartherThan(dx, dy, limit) ==
    \/ Abs(dx) > limit
    \/ Abs(dy) > limit
    \/ dx * dx + dy * dy > limit * limit

\* Math.hypot(dx, dy), rounded down to the unit below 300 pixels and to the pixel above
Hypot(dx, dy) ==
    IF Abs(dx) <= 300 * Scale /\ Abs(dy) <= 300 * Scale
    THEN Isqrt(dx * dx + dy * dy)
    ELSE Scale * Isqrt((Abs(dx) \div Scale) * (Abs(dx) \div Scale)
                       + (Abs(dy) \div Scale) * (Abs(dy) \div Scale))

\* a * b / c rounded towards zero (c > 0, b >= 0), without overflowing 32 bits
MulDiv(a, b, c) ==
    IF Abs(a) <= 300 * Scale
    THEN Sign(a) * ((Abs(a) * b) \div c)
    ELSE Sign(a) * (((Abs(a) \div Scale) * b) \div Max(1, c \div Scale))

\* the elements of a set of integers in increasing order
RECURSIVE SortedSeq(_)
SortedSeq(S) ==
    IF S = {} THEN << >>
    ELSE LET m == CHOOSE v \in S : \A w \in S : v <= w
         IN << m >> \o SortedSeq(S \ {m})

----------------------------------------------------------------------------
(* State *)

VARIABLES
    players,           \* gameState.players: the records, in insertion order
    followers,         \* gameState.followers: the records, in insertion order
    objects,           \* gameState.objects: the records, in insertion order
    tick,              \* gameState.tick
    lastTick,          \* gameState.lastTick
    dynamicColliders,  \* worldMap.js dynamicColliders: a set of <<col, row>>
    objectColliders,   \* worldMap.js objectColliders: a set of rectangles with an id
    clients,           \* wss.clients: per connection, whether it is open and its playerId
    now,               \* Date.now()
    clock,             \* how often the clock has advanced
    crashed,           \* an exception escaped a timer callback: the process is gone
    sent,              \* the messages the last handler sent, in order
    writes,            \* the persistence writes the last handler issued, in order
    lastOp,            \* the handler that ran last
    pending,           \* the writes the file system has not settled
    refused,           \* the open connections without a player a join of which was refused
    collidersFile      \* colliders.json: its content, and that of the write issued last

vars == << players, followers, objects, tick, lastTick, dynamicColliders,
           objectColliders, clients, now, clock, crashed, sent, writes, lastOp,
           pending, refused, collidersFile >>

Clients == 1 .. NumClients

\* the movement keys of an input packet
KeyNames == {"up", "down", "left", "right", "w", "a", "s", "d"}

\* data.input of an input message that carries none: undefined, which is falsy
NoInput == [kind |-> "none", keys |-> {}, seq |-> 0]

\* createPlayerState: a record as handleJoin creates it, before it is placed
createPlayerState ==
    [x |-> 0, y |-> 0, vx |-> 0, vy |-> 0, lastInputSeq |-> 0,
     lastInput |-> NoInput, connected |-> TRUE, hugging |-> FALSE,
     hugEndTime |-> 0, sitting |-> FALSE]

\* createFollowerState
createFollowerState ==
    [x |-> 0, y |-> 0, vx |-> 0, vy |-> 0, targetPlayerId |-> 0, slot |-> 0]

PlayerIds == DOMAIN players

\* getConnectedPlayers, as the ids in insertion order
getConnectedPlayers(ps) ==
    SelectSeq([i \in DOMAIN ps |-> i], LAMBDA i : ps[i].connected)

connectedCount(ps) == Len(getConnectedPlayers(ps))

----------------------------------------------------------------------------
(* Collision oracle (worldMap.js) *)

\* toTileCoords: Math.floor(world / COLLIDER_TILE_SIZE)
toTileCoords(worldX, worldY) ==
    << worldX \div (TILE_SIZE * Scale), worldY \div (TILE_SIZE * Scale) >>

hasColliderTile(col, row) == << col, row >> \in dynamicColliders

\* getTileAt(...) === null: the point lies outside the map
outsideMap(col, row) == row < 0 \/ row >= MAP_ROWS \/ col < 0 \/ col >= MAP_COLS

\* staticColliders: the bench
staticColliders ==
    { [left   |-> BENCH_X * Scale - (BENCH_COLLIDER_WIDTH * Scale) \div 2,
       top    |-> BENCH_Y * Scale - BENCH_COLLIDER_HEIGHT * Scale - BENCH_COLLIDER_DROP * Scale,
       width  |-> BENCH_COLLIDER_WIDTH * Scale,
       height |-> BENCH_COLLIDER_HEIGHT * Scale] }

inRect(worldX, worldY, c) ==
    /\ worldX >= c.left
    /\ worldX <= c.left + c.width
    /\ worldY >= c.top
    /\ worldY <= c.top + c.height

\* isCollidable: tiles first, nothing outside the map, then the static and the
\* object rectangles (no tile of WORLD_MAP is collidable)
isCollidable(worldX, worldY) ==
    LET t == toTileCoords(worldX, worldY)
    IN IF hasColliderTile(t[1], t[2]) THEN TRUE
       ELSE IF outsideMap(t[1], t[2]) THEN FALSE
       ELSE \/ \E c \in staticColliders : inRect(worldX, worldY, c)
            \/ \E c \in objectColliders : inRect(worldX, worldY, c)

\* canMoveTo's nine sample points, as offsets from the centre
checkPoints ==
    LET r == PLAYER_RADIUS * Scale
    IN { << 0, 0 >>, << -r, 0 >>, << r, 0 >>, << 0, -r >>, << 0, r \div 100 >>,
         << -((r * 7) \div 10), -((r * 4) \div 10) >>,
         << (r * 7) \div 10, -((r * 4) \div 10) >>,
         << -((r * 7) \div 10), r \div 100 >>,
         << (r * 7) \div 10, r \div 100 >> }

\* canMoveTo that samples the centre only
canMoveToCentre(x, y) == ~isCollidable(x, y)

canMoveTo(x, y) == \A pt \in checkPoints : ~isCollidable(x + pt[1], y + pt[2])

\* clampAxis that does not clamp
clampAxisNot(v, limit) == v

\* the clamp of processPlayerInput and clampToWorld, one axis
clampAxis(v, limit) == Max(0, Min(limit, v))

----------------------------------------------------------------------------
(* Messages and persistence writes *)

\* one message on the wire: type, up to two identifiers or numbers, and a list
\* of player ids (the players of a welcome or of a state_update)
Msg(to, type, a, b, ids) == [to |-> to, type |-> type, a |-> a, b |-> b, ids |-> ids]

\* wss.clients.forEach(client => ... client.send(message)) over the clients in S
SendEach(S, type, a, b, ids) ==
    LET order == SortedSeq(S)
    IN [i \in DOMAIN order |-> Msg(order[i], type, a, b, ids)]

\* client.readyState === WebSocket.OPEN
openClients(cs) == {c \in Clients : cs[c].open}

\* sendError that sends nothing
sendErrorNever(cs, c) == << >>

\* sendError that goes to every open client
sendErrorToAll(cs, c) == SendEach(openClients(cs), "error", 0, 0, {})

\* sendError
sendError(cs, c) ==
    IF cs[c].open THEN << Msg(c, "error", 0, 0, {}) >> ELSE << >>

\* broadcastToOthers that does not leave the sender out
broadcastToEveryone(cs, sender, type, a) ==
    SendEach(openClients(cs), type, a, 0, {})

\* broadcastToOthers
broadcastToOthers(cs, sender, type, a) ==
    SendEach(openClients(cs) \ {sender}, type, a, 0, {})

\* the broadcasts to every open client: collider, object and hug events
broadcastAll(cs, type, a, b) == SendEach(openClients(cs), type, a, b, {})

\* broadcastState that reaches nobody
stateRecipientsNone(cs) == {}

\* the clients broadcastState sends to: open, with a playerId
stateRecipients(cs) == {c \in openClients(cs) : cs[c].playerId # 0}

\* the players list of a welcome and of a state_update
connectedIds(ps) == {i \in DOMAIN ps : ps[i].connected}

\* broadcastState that carries the tick value of the tick before
broadcastStateStale(cs, ps, t) ==
    SendEach(stateRecipients(cs), "state_update", t - 1, 0, connectedIds(ps))

\* broadcastState
broadcastState(cs, ps, t) ==
    SendEach(stateRecipients(cs), "state_update", t, 0, connectedIds(ps))

\* saveState: the document holds every player's id and position, not its
\* velocity nor whether it is connected
saveState(ps) ==
    [file |-> "state",
     content |-> [i \in DOMAIN ps |-> [x |-> ps[i].x, y |-> ps[i].y]]]

\* saveColliders that writes an empty document
saveCollidersNone(tiles) == [file |-> "colliders", content |-> {}]

\* saveColliders of getColliders()
saveColliders(tiles) == [file |-> "colliders", content |-> tiles]

\* saveObjects of gameState.objects
saveObjects(os) == [file |-> "objects", content |-> os]

\* the writes a handler leaves outstanding: fs.writeFile is started, not
\* awaited.  Of a write of colliders.json the content is kept, of the other
\* documents the file only
inFlight(ws) ==
    {[file |-> ws[k].file,
      content |-> IF ws[k].file = "colliders" THEN ws[k].content ELSE {}] :
       k \in DOMAIN ws}

\* colliders.json and the content of the write of it that was issued last,
\* after a handler issued the writes ws
issued(file, ws) ==
    LET ks == {k \in DOMAIN ws : ws[k].file = "colliders"}
    IN IF ks = {} THEN file
       ELSE [file EXCEPT !.latest = ws[CHOOSE k \in ks : \A j \in ks : j <= k].content]

----------------------------------------------------------------------------
(* processPlayerInput *)

\* does the packet hold one of two keys
pressed(keys, k1, k2) == k1 \in keys \/ k2 \in keys

\* the velocity an input asks for, before normalisation, one axis
axisVelocity(keys, minus1, minus2, plus1, plus2) ==
    (IF pressed(keys, minus1, minus2) THEN -(PLAYER_SPEED * Scale) ELSE 0)
    + (IF pressed(keys, plus1, plus2) THEN PLAYER_SPEED * Scale ELSE 0)

\* (v / length) * PLAYER_SPEED, when both axes move
normalize(v, other) ==
    IF v # 0 /\ other # 0
    THEN Sign(v) * ((Abs(v) * (PLAYER_SPEED * Scale)) \div Isqrt(v * v + other * other))
    ELSE v

\* stepOf with deltaTime taken from the time since the last tick
stepOfElapsed(v) ==
    LET delta == Min(Max(now - lastTick, TICK_INTERVAL), TICK_INTERVAL * 4)
    IN Sign(v) * ((Abs(v) * delta) \div 1000)

\* v * deltaTime, with deltaTime = TICK_INTERVAL / 1000
stepOf(v) == Sign(v) * ((Abs(v) * TICK_INTERVAL) \div 1000)

processPlayerInput(p, input) ==
    LET rawX == axisVelocity(input.keys, "left", "a", "right", "d")
        rawY == axisVelocity(input.keys, "up", "w", "down", "s")
        vx == normalize(rawX, rawY)
        vy == normalize(rawY, rawX)
        newX == p.x + stepOf(vx)
        newY == p.y + stepOf(vy)
        okX == vx # 0 /\ canMoveTo(newX, p.y)
        finalX == IF okX THEN newX ELSE p.x
        okY == vy # 0 /\ canMoveTo(finalX, newY)
        finalY == IF okY THEN newY ELSE p.y
    IN [p EXCEPT !.vx = IF vx # 0 /\ ~okX THEN 0 ELSE vx,
                 !.vy = IF vy # 0 /\ ~okY THEN 0 ELSE vy,
                 !.x = clampAxis(finalX, WORLD_WIDTH),
                 !.y = clampAxis(finalY, WORLD_HEIGHT),
                 !.lastInputSeq = Max(p.lastInputSeq, input.seq)]

----------------------------------------------------------------------------
(* Followers *)

\* assignFollowersToPlayers that hands the followers to every player of the
\* Map, connected or not
assignFollowersToAll(ps, fs) ==
    IF Len(ps) = 0
    THEN [k \in DOMAIN fs |-> [fs[k] EXCEPT !.targetPlayerId = 0, !.vx = 0, !.vy = 0]]
    ELSE [k \in DOMAIN fs |->
             LET targetId == ((k - 1) % Len(ps)) + 1
                 f == fs[k]
             IN IF f.targetPlayerId # targetId
                THEN [f EXCEPT !.targetPlayerId = targetId, !.x = ps[targetId].x,
                               !.y = ps[targetId].y, !.slot = k - 1]
                ELSE [f EXCEPT !.slot = k - 1]]

\* assignFollowersToPlayers, given the players as they are when it is called
assignFollowersToPlayers(ps, fs) ==
    LET conn == getConnectedPlayers(ps)
    IN IF Len(conn) = 0
       THEN [k \in DOMAIN fs |->
                [fs[k] EXCEPT !.targetPlayerId = 0, !.vx = 0, !.vy = 0]]
       ELSE [k \in DOMAIN fs |->
                LET targetId == conn[((k - 1) % Len(conn)) + 1]
                    f == fs[k]
                IN IF f.targetPlayerId # targetId
                   THEN [f EXCEPT !.targetPlayerId = targetId,
                                  !.x = ps[targetId].x,
                                  !.y = ps[targetId].y,
                                  !.slot = k - 1]
                   ELSE [f EXCEPT !.slot = k - 1]]

\* clampToWorld
clampToWorld(e) ==
    [e EXCEPT !.x = clampAxis(e.x, WORLD_WIDTH), !.y = clampAxis(e.y, WORLD_HEIGHT)]

\* follower.v *= 0.4, and zero below 2 pixels per second
damp(v) ==
    LET d == Sign(v) * ((Abs(v) * 4) \div 10)
    IN IF Abs(d) < 2 * Scale THEN 0 ELSE d

\* one follower's step of updateFollowers; deltaMs is the clamped delta
updateFollower(ps, f, deltaMs) ==
    IF f.targetPlayerId = 0
    THEN [f EXCEPT !.vx = 0, !.vy = 0]
    ELSE IF f.targetPlayerId \notin DOMAIN ps \/ ~ps[f.targetPlayerId].connected
    THEN [f EXCEPT !.targetPlayerId = 0, !.vx = 0, !.vy = 0]
    ELSE
      LET target == ps[f.targetPlayerId]
          \* distanceMultiplier, times ten: 4 when the target sits, else 1.3
          mult10 == IF target.sitting THEN 40 ELSE 13
          \* TILE_SIZE * 1.8 * distanceMultiplier
          baseOffset == (TILE_SIZE * Scale * 18 * mult10) \div 100
          \* TILE_SIZE * 0.8 * distanceMultiplier
          desiredDistance == (TILE_SIZE * Scale * 8 * mult10) \div 100
          \* cos and sin of plus or minus pi/6, in 1/10000
          cosA == 8660
          sinA == IF f.slot % 2 = 0 THEN 5000 ELSE -5000
          targetSpeed == Hypot(target.vx, target.vy)
          offsetX == -((cosA * baseOffset) \div 10000) - target.vx \div 4
          offsetY == -((sinA * baseOffset) \div 10000) - target.vy \div 4
          dx == target.x + offsetX - f.x
          dy == target.y + offsetY - f.y
          distance == Hypot(dx, dy)
          speed == Max(60 * Scale, FOLLOWER_SPEED * Scale - (targetSpeed * 15) \div 100)
          maxStep == (speed * deltaMs) \div 1000
          move == Min(maxStep, Max(0, distance - desiredDistance))
      IN IF distance <= desiredDistance
         THEN [f EXCEPT !.vx = damp(f.vx), !.vy = damp(f.vy)]
         ELSE IF distance > 0
         THEN clampToWorld(
                [f EXCEPT !.x = f.x + MulDiv(dx, move, distance),
                          !.y = f.y + MulDiv(dy, move, distance),
                          !.vx = IF 2 * move < 3 * Scale THEN 0
                                 ELSE MulDiv(dx, speed, distance),
                          !.vy = IF 2 * move < 3 * Scale THEN 0
                                 ELSE MulDiv(dy, speed, distance)])
         ELSE f

updateFollowers(ps, fs, deltaMs) ==
    [k \in DOMAIN fs |-> updateFollower(ps, fs[k], deltaMs)]

----------------------------------------------------------------------------
(* Start-up *)

\* a record as initializeGame restores it from the saved state
savedPlayer(x, y) ==
    [createPlayerState EXCEPT !.x = x, !.y = y, !.connected = FALSE]

\* The saved states the server may start from: game-state.json holds what
\* saveState wrote in an earlier run, positions the running server produced.
\* One player standing three pixels from the top left corner of the world.
SavedAtCorner == << savedPlayer(3 * Scale, 3 * Scale) >>

\* Players standing around the bench, within sitting and hugging distance.
SavedAtBench ==
    << savedPlayer(2750 * Scale, 1520 * Scale),
       savedPlayer(2790 * Scale, 1540 * Scale),
       savedPlayer(2740 * Scale, 1530 * Scale) >>

\* The first two of them, and the first alone.
SavedPair == SubSeq(SavedAtBench, 1, 2)

SavedOne == SubSeq(SavedAtBench, 1, 1)

SavedStates == { << >>, SavedAtCorner, SavedAtBench }

\* the world position of a spawn point
spawnX(spawn) == spawn[1] * TILE_SIZE * Scale + (TILE_SIZE * Scale) \div 2

spawnY(spawn) == (spawn[2] + 1) * TILE_SIZE * Scale

\* initializeFollowers: one follower per template, at the first spawn point
initializeFollowers ==
    << [createFollowerState EXCEPT !.x = spawnX(SPAWN_POINTS[1]),
                                   !.y = spawnY(SPAWN_POINTS[1])] >>

\* startServer: the state when the first connection or tick can happen, the
\* saved state being one of layouts
startServer(layouts) ==
    /\ players \in layouts
    /\ followers = assignFollowersToPlayers(players, initializeFollowers)
    /\ objects = << >>
    /\ tick = 0
    /\ lastTick = 0
    /\ dynamicColliders = {}
    /\ objectColliders = {}
    /\ clients = [c \in Clients |-> [open |-> FALSE, playerId |-> 0]]
    /\ now = 0
    /\ clock = 0
    /\ crashed = FALSE
    /\ sent = << >>
    /\ writes = << saveObjects(objects) >>
    /\ lastOp = "startServer"
    /\ pending = {}
    /\ collidersFile = [content |-> {}, latest |-> {}]
    /\ refused = {}

Init == startServer(SavedStates)

----------------------------------------------------------------------------
(* Connections *)

\* wss.on('connection'): a new client object, open, with no playerId
Connect(c) ==
    /\ ~crashed
    /\ ~clients[c].open
    /\ clients' = [clients EXCEPT ![c] = [open |-> TRUE, playerId |-> 0]]
    /\ sent' = << >>
    /\ writes' = << >>
    /\ lastOp' = "connection"
    /\ UNCHANGED << players, followers, objects, tick, lastTick, dynamicColliders,
                    objectColliders, now, clock, crashed >>
    /\ pending' = pending \cup inFlight(writes')
    /\ collidersFile' = issued(collidersFile, writes')
    /\ UNCHANGED refused

\* roomFull with the comparison off by one
roomFullAbove(ps) == connectedCount(ps) > MAX_PLAYERS

\* the room-full test of handleJoin
roomFull(ps) == connectedCount(ps) >= MAX_PLAYERS

\* spawnedPlayer that puts every new player on the first spawn point
spawnedAtFirst(ps) ==
    [createPlayerState EXCEPT !.x = spawnX(SPAWN_POINTS[1]),
                              !.y = spawnY(SPAWN_POINTS[1])]

\* the record handleJoin creates for a new id, at its spawn point
spawnedPlayer(ps) ==
    LET spawnIndex == Min(connectedCount(ps), Len(SPAWN_POINTS) - 1)
        spawn == SPAWN_POINTS[spawnIndex + 1]
    IN [createPlayerState EXCEPT !.x = spawnX(spawn), !.y = spawnY(spawn)]

\* reconnectedPlayer that puts the player back on the first spawn point
reconnectedAtSpawn(p) ==
    [p EXCEPT !.connected = TRUE, !.x = spawnX(SPAWN_POINTS[1]),
              !.y = spawnY(SPAWN_POINTS[1])]

\* reconnectedPlayer that leaves the record disconnected
reconnectedOffline(p) == [p EXCEPT !.connected = FALSE]

\* the reconnection branch of handleJoin
reconnectedPlayer(p) == [p EXCEPT !.connected = TRUE]

\* handleJoin; pid is data.playerId: 0 for none, an id the Map holds, or one
\* it does not hold
handleJoin(c, pid) ==
    /\ ~crashed
    /\ clients[c].open
    /\ lastOp' = "join"
    /\ IF roomFull(players)
       THEN /\ sent' = sendError(clients, c)
            /\ writes' = << >>
            /\ UNCHANGED << players, clients, followers >>
       ELSE LET known == pid \in DOMAIN players
                playerId == IF known THEN pid ELSE Len(players) + 1
                ps == IF known
                      THEN [players EXCEPT ![pid] = reconnectedPlayer(players[pid])]
                      ELSE Append(players, spawnedPlayer(players))
                cs == [clients EXCEPT ![c].playerId = playerId]
            IN /\ known \/ Len(players) < MaxPlayers
               /\ players' = ps
               /\ clients' = cs
               /\ followers' = assignFollowersToPlayers(ps, followers)
               /\ sent' = << Msg(c, "welcome", playerId, 0, connectedIds(ps)) >>
                            \o broadcastToOthers(cs, c, "player_joined", playerId)
               /\ writes' = << saveState(ps) >>
    /\ UNCHANGED << objects, tick, lastTick, dynamicColliders, objectColliders,
                    now, clock, crashed >>
    /\ pending' = pending \cup inFlight(writes')
    /\ collidersFile' = issued(collidersFile, writes')
    /\ refused' = IF roomFull(players) /\ clients[c].playerId = 0
                  THEN refused \cup {c} ELSE refused

\* client.on('close'): handleDisconnect, after which the client object is gone
handleDisconnect(c) ==
    /\ ~crashed
    /\ clients[c].open
    /\ lastOp' = "close"
    /\ LET pid == clients[c].playerId
           cs == [clients EXCEPT ![c] = [open |-> FALSE, playerId |-> 0]]
       IN /\ clients' = cs
          /\ IF pid # 0 /\ pid \in DOMAIN players
             THEN LET ps == [players EXCEPT ![pid].connected = FALSE]
                  IN /\ players' = ps
                     /\ followers' = assignFollowersToPlayers(ps, followers)
                     /\ sent' = broadcastToOthers(cs, c, "player_left", pid)
                     /\ writes' = << saveState(ps) >>
             ELSE /\ sent' = << >>
                  /\ writes' = << >>
                  /\ UNCHANGED << players, followers >>
    /\ UNCHANGED << objects, tick, lastTick, dynamicColliders, objectColliders,
                    now, clock, crashed >>
    /\ pending' = pending \cup inFlight(writes')
    /\ collidersFile' = issued(collidersFile, writes')
    /\ refused' = refused \ {c}

----------------------------------------------------------------------------
(* Input *)

\* the key sets a client may hold down
KeyChoices == { {"d"}, {"up", "left"} }

\* data.input of an input message: absent, an object without keys, or a packet
Inputs ==
    {NoInput}
    \cup {[kind |-> "nokeys", keys |-> {}, seq |-> s] : s \in 1 .. MaxSeq}
    \cup {[kind |-> "keys", keys |-> k, seq |-> s] : k \in KeyChoices, s \in 1 .. MaxSeq}

\* the reply of a handler that needs a connected player: "" when the client
\* has one, else the error it sends
playerError(c) ==
    IF clients[c].playerId = 0 THEN "Not authenticated"
    ELSE IF ~players[clients[c].playerId].connected THEN "Player not found"
    ELSE ""

handleInput(c, input) ==
    /\ ~crashed
    /\ clients[c].open
    /\ lastOp' = "input"
    /\ IF playerError(c) # ""
       THEN /\ sent' = sendError(clients, c)
            /\ writes' = << >>
            /\ UNCHANGED players
       ELSE /\ players' = [players EXCEPT ![clients[c].playerId].lastInput = input]
            /\ sent' = << >>
            /\ writes' = IF tick % 10 = 0 THEN << saveState(players') >> ELSE << >>
    /\ UNCHANGED << followers, objects, tick, lastTick, dynamicColliders,
                    objectColliders, clients, now, clock, crashed >>
    /\ pending' = pending \cup inFlight(writes')
    /\ collidersFile' = issued(collidersFile, writes')
    /\ UNCHANGED refused

----------------------------------------------------------------------------
(* The tick *)

\* the clamped delta of gameTick, in milliseconds
clampedDelta == Min(Max(now - lastTick, TICK_INTERVAL), TICK_INTERVAL * 4)

\* the test of gameTick's first loop: this player's hug ends in a tick at time t
hugExpires(p, t) ==
    p.connected /\ p.hugging /\ p.hugEndTime > 0 /\ t >= p.hugEndTime

\* gameTick's first loop
expireHugs(ps, t) ==
    [i \in DOMAIN ps |->
        IF hugExpires(ps[i], t)
        THEN [ps[i] EXCEPT !.hugging = FALSE, !.hugEndTime = 0]
        ELSE ps[i]]

\* the hug_ended broadcasts of the first loop, in the order of the Map
RECURSIVE hugEndedFrom(_, _, _)
hugEndedFrom(ps, t, i) ==
    IF i > Len(ps) THEN << >>
    ELSE (IF hugExpires(ps[i], t)
          THEN broadcastAll(clients, "hug_ended", i, 0)
          ELSE << >>) \o hugEndedFrom(ps, t, i + 1)

\* processPlayerInput throws on this player: its stored input is an object
\* without keys, and keys.up is read of undefined
inputThrows(p) ==
    p.connected /\ ~(p.hugging \/ p.sitting) /\ p.lastInput.kind = "nokeys"

\* tickPlayer that uses the stored input up
tickPlayerOnce(p) ==
    IF ~p.connected THEN p
    ELSE IF p.hugging \/ p.sitting THEN [p EXCEPT !.vx = 0, !.vy = 0]
    ELSE IF p.lastInput.kind # "none"
    THEN [processPlayerInput(p, p.lastInput) EXCEPT !.lastInput = NoInput]
    ELSE [p EXCEPT !.vx = 0, !.vy = 0]

\* tickPlayer that applies the stored input to hugging and sitting players too
tickPlayerAlways(p) ==
    IF ~p.connected THEN p
    ELSE IF p.lastInput.kind # "none" THEN processPlayerInput(p, p.lastInput)
    ELSE [p EXCEPT !.vx = 0, !.vy = 0]

\* one player's turn in gameTick's second loop
tickPlayer(p) ==
    IF ~p.connected THEN p
    ELSE IF p.hugging \/ p.sitting THEN [p EXCEPT !.vx = 0, !.vy = 0]
    ELSE IF p.lastInput.kind # "none" THEN processPlayerInput(p, p.lastInput)
    ELSE [p EXCEPT !.vx = 0, !.vy = 0]

\* gameTick's second loop: every player in turn, up to the first one whose
\* input throws (0: none does)
processInputs(ps) ==
    LET throwers == {i \in DOMAIN ps : inputThrows(ps[i])}
        first == IF throwers = {} THEN 0
                 ELSE CHOOSE i \in throwers : \A j \in throwers : i <= j
    IN [i \in DOMAIN ps |->
          IF first = 0 \/ i < first THEN tickPlayer(ps[i]) ELSE ps[i]]

\* gameTick, the setInterval callback.  An exception that escapes it ends
\* the process: nothing after the throw runs, then or later.
gameTick ==
    /\ ~crashed
    /\ tick < MaxTick
    /\ lastOp' = "tick"
    /\ writes' = << >>
    /\ LET ps1 == expireHugs(players, now)
           ps2 == processInputs(ps1)
           ended == hugEndedFrom(players, now, 1)
       IN /\ players' = ps2
          /\ IF \E i \in DOMAIN ps1 : inputThrows(ps1[i])
             THEN /\ crashed' = TRUE
                  /\ sent' = ended
                  /\ UNCHANGED << followers, tick, lastTick >>
             ELSE /\ followers' = updateFollowers(ps2, followers, clampedDelta)
                  /\ tick' = tick + 1
                  /\ lastTick' = now
                  /\ sent' = ended \o broadcastState(clients, ps2, tick + 1)
                  /\ UNCHANGED crashed
    /\ UNCHANGED << objects, dynamicColliders, objectColliders, clients, now, clock >>
    /\ pending' = pending \cup inFlight(writes')
    /\ collidersFile' = issued(collidersFile, writes')
    /\ UNCHANGED refused

\* time passes between two events
Advance ==
    /\ ~crashed
    /\ clock < MaxClock
    /\ now' = now + ClockStep
    /\ clock' = clock + 1
    /\ UNCHANGED << players, followers, objects, tick, lastTick, dynamicColliders,
                    objectColliders, clients, crashed, sent, writes, lastOp,
                    pending, refused, collidersFile >>

----------------------------------------------------------------------------
(* Hug *)

\* otherPlayers[0] of handleHug: the first other connected player, or 0
hugPartner(ps, pid) ==
    LET others == SelectSeq(getConnectedPlayers(ps), LAMBDA i : i # pid)
    IN IF Len(others) = 0 THEN 0 ELSE others[1]

\* handleHug's preconditions without the two tests of hugging
hugAllowedAgain(ps, pid) ==
    /\ ps[pid].connected
    /\ hugPartner(ps, pid) # 0
    /\ ~FartherThan(ps[pid].x - ps[hugPartner(ps, pid)].x,
                    ps[pid].y - ps[hugPartner(ps, pid)].y,
                    HUG_PROXIMITY_THRESHOLD * Scale)

\* the preconditions of handleHug, all of them
hugAllowed(ps, pid) ==
    /\ ps[pid].connected
    /\ ~ps[pid].hugging
    /\ hugPartner(ps, pid) # 0
    /\ ~FartherThan(ps[pid].x - ps[hugPartner(ps, pid)].x,
                    ps[pid].y - ps[hugPartner(ps, pid)].y,
                    HUG_PROXIMITY_THRESHOLD * Scale)
    /\ ~ps[hugPartner(ps, pid)].hugging

\* one side of a started hug
huggingPlayer(p, avgY, hugEndTime) ==
    [p EXCEPT !.y = avgY, !.hugging = TRUE, !.hugEndTime = hugEndTime,
              !.vx = 0, !.vy = 0]

\* startHug that forgets the other player
startHugAlone(ps, a, b, t) ==
    [ps EXCEPT ![a] = huggingPlayer(ps[a], (ps[a].y + ps[b].y) \div 2, t + HUG_DURATION)]

\* the players after handleHug started a hug between a and b at time t
startHug(ps, a, b, t) ==
    LET avgY == (ps[a].y + ps[b].y) \div 2
    IN [ps EXCEPT ![a] = huggingPlayer(ps[a], avgY, t + HUG_DURATION),
                  ![b] = huggingPlayer(ps[b], avgY, t + HUG_DURATION)]

handleHug(c) ==
    /\ ~crashed
    /\ clients[c].open
    /\ lastOp' = "hug"
    /\ writes' = << >>
    /\ LET pid == clients[c].playerId
       IN IF pid = 0
          THEN /\ sent' = sendError(clients, c)
               /\ UNCHANGED players
          ELSE IF ~hugAllowed(players, pid)
          THEN /\ sent' = << >>
               /\ UNCHANGED players
          ELSE /\ players' = startHug(players, pid, hugPartner(players, pid), now)
               /\ sent' = broadcastAll(clients, "hug_started", pid,
                                       hugPartner(players, pid))
    /\ UNCHANGED << followers, objects, tick, lastTick, dynamicColliders,
                    objectColliders, clients, now, clock, crashed >>
    /\ pending' = pending \cup inFlight(writes')
    /\ collidersFile' = issued(collidersFile, writes')
    /\ UNCHANGED refused

----------------------------------------------------------------------------
(* Bench *)

\* sittingCount of handleBenchSit
sittingCount(ps) == Cardinality({i \in DOMAIN ps : ps[i].connected /\ ps[i].sitting})

\* the bench is full
benchFull(ps) == sittingCount(ps) >= 2

\* seatOffset of handleBenchSit
seatOffset(ps) == IF sittingCount(ps) = 0 THEN BENCH_SEAT_OFFSET ELSE -BENCH_SEAT_OFFSET

\* the tests of handleBenchSit after the player is found
sitAllowed(ps, pid) ==
    /\ ~ps[pid].sitting
    /\ ~FartherThan(ps[pid].x - BENCH_X * Scale, ps[pid].y - BENCH_Y * Scale,
                    BENCH_SIT_DISTANCE * Scale)
    /\ ~benchFull(ps)

\* the player handleBenchSit seats
seated(ps, pid) ==
    [ps[pid] EXCEPT !.x = (BENCH_X + seatOffset(ps)) * Scale, !.y = BENCH_Y * Scale,
                    !.vx = 0, !.vy = 0, !.sitting = TRUE]

handleBenchSit(c) ==
    /\ ~crashed
    /\ clients[c].open
    /\ lastOp' = "bench_sit"
    /\ writes' = << >>
    /\ LET pid == clients[c].playerId
       IN IF playerError(c) # ""
          THEN /\ sent' = sendError(clients, c)
               /\ UNCHANGED players
          ELSE IF ~sitAllowed(players, pid)
          THEN /\ sent' = << >>
               /\ UNCHANGED players
          ELSE LET ps == [players EXCEPT ![pid] = seated(players, pid)]
               IN /\ players' = ps
                  /\ sent' = broadcastState(clients, ps, tick)
    /\ UNCHANGED << followers, objects, tick, lastTick, dynamicColliders,
                    objectColliders, clients, now, clock, crashed >>
    /\ pending' = pending \cup inFlight(writes')
    /\ collidersFile' = issued(collidersFile, writes')
    /\ UNCHANGED refused

\* the player handleBenchStand stands up
stoodUp(p) ==
    [p EXCEPT !.x = IF p.x - BENCH_X * Scale < 0
                    THEN (BENCH_X - STAND_OFFSET) * Scale
                    ELSE (BENCH_X + STAND_OFFSET) * Scale,
              !.y = BENCH_Y * Scale, !.vx = 0, !.vy = 0, !.sitting = FALSE]

handleBenchStand(c) ==
    /\ ~crashed
    /\ clients[c].open
    /\ lastOp' = "bench_stand"
    /\ writes' = << >>
    /\ LET pid == clients[c].playerId
       IN IF playerError(c) # ""
          THEN /\ sent' = sendError(clients, c)
               /\ UNCHANGED players
          ELSE IF ~players[pid].sitting
          THEN /\ sent' = << >>
               /\ UNCHANGED players
          ELSE LET ps == [players EXCEPT ![pid] = stoodUp(players[pid])]
               IN /\ players' = ps
                  /\ sent' = broadcastState(clients, ps, tick)
    /\ UNCHANGED << followers, objects, tick, lastTick, dynamicColliders,
                    objectColliders, clients, now, clock, crashed >>
    /\ pending' = pending \cup inFlight(writes')
    /\ collidersFile' = issued(collidersFile, writes')
    /\ UNCHANGED refused

\* the player handleResetPosition moved
resetPlayer(p) == [p EXCEPT !.vx = 0, !.vy = 0, !.x = RESET_X, !.y = RESET_Y]

handleResetPosition(c) ==
    /\ ~crashed
    /\ clients[c].open
    /\ lastOp' = "reset_position"
    /\ writes' = << >>
    /\ LET pid == clients[c].playerId
       IN IF playerError(c) # ""
          THEN /\ sent' = sendError(clients, c)
               /\ UNCHANGED players
          ELSE LET ps == [players EXCEPT ![pid] = resetPlayer(players[pid])]
               IN /\ players' = ps
                  /\ sent' = broadcastState(clients, ps, tick)
    /\ UNCHANGED << followers, objects, tick, lastTick, dynamicColliders,
                    objectColliders, clients, now, clock, crashed >>
    /\ pending' = pending \cup inFlight(writes')
    /\ collidersFile' = issued(collidersFile, writes')
    /\ UNCHANGED refused

----------------------------------------------------------------------------
(* Collider tiles *)

\* data of a place_collider or remove_collider message: whether Number(col)
\* and Number(row) are both integers, and then the two
ColliderInputs ==
    { [integer |-> FALSE, col |-> 0, row |-> 0],
      [integer |-> TRUE, col |-> 20, row |-> 10],
      [integer |-> TRUE, col |-> 21, row |-> 10],
      [integer |-> TRUE, col |-> -1, row |-> 5] }

\* tileOnMap that takes every tile
tileAnywhere(col, row) == TRUE

\* addColliderTile's test: the tile lies on the map
tileOnMap(col, row) == ~(col < 0 \/ col >= MAP_COLS \/ row < 0 \/ row >= MAP_ROWS)

handlePlaceCollider(c, data) ==
    /\ ~crashed
    /\ clients[c].open
    /\ lastOp' = "place_collider"
    /\ IF clients[c].playerId = 0 \/ ~data.integer
       THEN /\ sent' = sendError(clients, c)
            /\ writes' = << >>
            /\ UNCHANGED dynamicColliders
       ELSE IF ~tileOnMap(data.col, data.row)
       THEN /\ sent' = << >>
            /\ writes' = << >>
            /\ UNCHANGED dynamicColliders
       ELSE /\ dynamicColliders' = dynamicColliders \cup {<< data.col, data.row >>}
            /\ sent' = broadcastAll(clients, "collider_placed", data.col, data.row)
            /\ writes' = << saveColliders(dynamicColliders') >>
    /\ UNCHANGED << players, followers, objects, tick, lastTick, objectColliders,
                    clients, now, clock, crashed >>
    /\ pending' = pending \cup inFlight(writes')
    /\ collidersFile' = issued(collidersFile, writes')
    /\ UNCHANGED refused

\* removeColliderTile that reports a removal whatever the set held
removeColliderTileAlways(col, row) == TRUE

\* removeColliderTile's result: Set.prototype.delete tells whether the key was there
removeColliderTile(col, row) == << col, row >> \in dynamicColliders

handleRemoveCollider(c, data) ==
    /\ ~crashed
    /\ clients[c].open
    /\ lastOp' = "remove_collider"
    /\ IF clients[c].playerId = 0 \/ ~data.integer
       THEN /\ sent' = sendError(clients, c)
            /\ writes' = << >>
            /\ UNCHANGED dynamicColliders
       ELSE IF ~removeColliderTile(data.col, data.row)
       THEN /\ sent' = << >>
            /\ writes' = << >>
            /\ UNCHANGED dynamicColliders
       ELSE /\ dynamicColliders' = dynamicColliders \ {<< data.col, data.row >>}
            /\ sent' = broadcastAll(clients, "collider_removed", data.col, data.row)
            /\ writes' = << saveColliders(dynamicColliders') >>
    /\ UNCHANGED << players, followers, objects, tick, lastTick, objectColliders,
                    clients, now, clock, crashed >>
    /\ pending' = pending \cup inFlight(writes')
    /\ collidersFile' = issued(collidersFile, writes')
    /\ UNCHANGED refused

----------------------------------------------------------------------------
(* Display objects *)

\* getObjectBounds
getObjectBounds(object) ==
    [left   |-> object.x - object.width \div 2,
     right  |-> object.x + object.width \div 2,
     top    |-> object.y - object.height,
     bottom |-> object.y]

\* objectsOverlap that only finds an object lying wholly inside the other
objectsNested(objectA, objectB) ==
    LET a == getObjectBounds(objectA)
        b == getObjectBounds(objectB)
    IN a.left <= b.left /\ a.right >= b.right /\ a.top <= b.top /\ a.bottom >= b.bottom

\* objectsOverlap
objectsOverlap(objectA, objectB) ==
    LET a == getObjectBounds(objectA)
        b == getObjectBounds(objectB)
    IN a.left < b.right /\ a.right > b.left /\ a.top < b.bottom /\ a.bottom > b.top

\* pointInObject
pointInObject(x, y, object) ==
    LET bounds == getObjectBounds(object)
    IN x >= bounds.left /\ x <= bounds.right /\ y >= bounds.top /\ y <= bounds.bottom

\* the centre of the foot of a tile, where an object given by col and row stands
tileFootX(col) == ((2 * col + 1) * TILE_SIZE * Scale) \div 2

tileFootY(row) == (row + 1) * TILE_SIZE * Scale

\* data of a place_object or remove_object message.  id: the object named (0:
\* no string id); coords: "xy" when Number(x) and Number(y) are finite, else
\* "tile" when col and row are integers, else "none"; sized: width and height
\* are finite numbers
objectData(id, coords, x, y, col, row, sized, width, height) ==
    [id |-> id, coords |-> coords, x |-> x, y |-> y, col |-> col, row |-> row,
     sized |-> sized, width |-> width, height |-> height]

ObjectInputs ==
    { objectData(0, "none", 0, 0, 0, 0, FALSE, 0, 0),
      objectData(0, "xy", 100 * Scale, 100 * Scale, 0, 0, FALSE, 0, 0),
      objectData(0, "xy", 52 * Scale, 100 * Scale, 0, 0, FALSE, 0, 0),
      objectData(0, "xy", -5 * Scale, 100 * Scale, 0, 0, TRUE, 100 * Scale, 72 * Scale),
      objectData(0, "tile", 0, 0, 7, 5, TRUE, 10 * Scale, 10 * Scale),
      objectData(1, "none", 0, 0, 0, 0, FALSE, 0, 0) }

\* the id normalizeObjectData generates, a string no object of the registry
\* has: here the least number none of them has
newObjectId(os) ==
    LET free == (1 .. Len(os) + 1) \ {os[k].id : k \in DOMAIN os}
    IN CHOOSE n \in free : \A m \in free : n <= m

\* normalizeObjectData of what handlePlaceObject passes, which has no id:
\* valid = FALSE stands for null
normalizeObjectData(raw, os) ==
    [valid  |-> raw.coords # "none",
     id     |-> newObjectId(os),
     x      |-> IF raw.coords = "tile" THEN tileFootX(raw.col) ELSE raw.x,
     y      |-> IF raw.coords = "tile" THEN tileFootY(raw.row) ELSE raw.y,
     width  |-> IF raw.sized THEN raw.width ELSE OBJECT_WIDTH * Scale,
     height |-> IF raw.sized THEN raw.height ELSE OBJECT_HEIGHT * Scale]

\* the test of handlePlaceObject on the world's bounds
outOfBounds(object) ==
    object.x < 0 \/ object.x > WORLD_WIDTH \/ object.y < 0 \/ object.y > WORLD_HEIGHT

\* the registry's record of a normalized object
objectRecord(o) == [id |-> o.id, x |-> o.x, y |-> o.y, width |-> o.width, height |-> o.height]

\* objectCollider that stores the rectangle under no id
objectColliderUnnamed(o) ==
    [id |-> 0, left |-> o.x - ((o.width * 6) \div 10) \div 2,
     top |-> o.y - (o.height * 6) \div 10,
     width |-> (o.width * 6) \div 10, height |-> (o.height * 6) \div 10]

\* the rectangle addObjectCollider stores: 0.6 of the width and of the
\* height, the bottom edge kept
objectCollider(o) ==
    LET collisionWidth == (o.width * 6) \div 10
        collisionHeight == (o.height * 6) \div 10
    IN [id |-> o.id, left |-> o.x - collisionWidth \div 2, top |-> o.y - collisionHeight,
        width |-> collisionWidth, height |-> collisionHeight]

handlePlaceObject(c, data) ==
    /\ ~crashed
    /\ clients[c].open
    /\ lastOp' = "place_object"
    /\ LET o == normalizeObjectData(data, objects)
       IN IF clients[c].playerId = 0 \/ ~o.valid \/ outOfBounds(o)
          THEN /\ sent' = sendError(clients, c)
               /\ writes' = << >>
               /\ UNCHANGED << objects, objectColliders >>
          ELSE IF \E k \in DOMAIN objects : objectsOverlap(objects[k], o)
          THEN /\ sent' = << >>
               /\ writes' = << >>
               /\ UNCHANGED << objects, objectColliders >>
          ELSE /\ Len(objects) < MaxObjects
               /\ objects' = Append(objects, objectRecord(o))
               /\ objectColliders' = objectColliders \cup {objectCollider(o)}
               /\ sent' = broadcastAll(clients, "object_placed", o.id, 0)
               /\ writes' = << saveObjects(objects') >>
    /\ UNCHANGED << players, followers, tick, lastTick, dynamicColliders, clients,
                    now, clock, crashed >>
    /\ pending' = pending \cup inFlight(writes')
    /\ collidersFile' = issued(collidersFile, writes')
    /\ UNCHANGED refused

\* Array.prototype.find over the registry: the index of the first object the
\* point lies in, or 0
firstObjectAt(os, x, y) ==
    LET hits == {k \in DOMAIN os : pointInObject(x, y, os[k])}
    IN IF hits = {} THEN 0 ELSE CHOOSE k \in hits : \A j \in hits : k <= j

\* the object handleRemoveObject picks, as an index of the registry or 0: by
\* id, else by the point, else by the tile
objectToRemove(os, data) ==
    LET byId == {k \in DOMAIN os : data.id # 0 /\ os[k].id = data.id}
    IN IF byId # {} THEN CHOOSE k \in byId : TRUE
       ELSE IF data.coords = "xy" THEN firstObjectAt(os, data.x, data.y)
       ELSE IF data.coords = "tile"
       THEN firstObjectAt(os, tileFootX(data.col), tileFootY(data.row))
       ELSE 0

handleRemoveObject(c, data) ==
    /\ ~crashed
    /\ clients[c].open
    /\ lastOp' = "remove_object"
    /\ LET k == objectToRemove(objects, data)
       IN IF clients[c].playerId = 0
          THEN /\ sent' = sendError(clients, c)
               /\ writes' = << >>
               /\ UNCHANGED << objects, objectColliders >>
          ELSE IF k = 0
          THEN /\ sent' = << >>
               /\ writes' = << >>
               /\ UNCHANGED << objects, objectColliders >>
          ELSE /\ objects' = SelectSeq(objects, LAMBDA o : o.id # objects[k].id)
               /\ objectColliders' = {r \in objectColliders : r.id # objects[k].id}
               /\ sent' = broadcastAll(clients, "object_removed", objects[k].id, 0)
               /\ writes' = << saveObjects(objects') >>
    /\ UNCHANGED << players, followers, tick, lastTick, dynamicColliders, clients,
                    now, clock, crashed >>
    /\ pending' = pending \cup inFlight(writes')
    /\ collidersFile' = issued(collidersFile, writes')
    /\ UNCHANGED refused

----------------------------------------------------------------------------
(* Messages that reach no handler *)

\* what handleMessage may be handed besides the ten message types: a text
\* JSON.parse throws on (or parses to null), and a message of a type the
\* switch does not know
OtherPayloads == {"malformed", "unknown"}

\* handleMessage on such a payload: the catch block answers with sendError,
\* the default case only logs
handleMessage(c, payload) ==
    /\ ~crashed
    /\ clients[c].open
    /\ lastOp' = payload
    /\ sent' = IF payload = "malformed" THEN sendError(clients, c) ELSE << >>
    /\ writes' = << >>
    /\ UNCHANGED << players, followers, objects, tick, lastTick, dynamicColliders,
                    objectColliders, clients, now, clock, crashed >>
    /\ pending' = pending \cup inFlight(writes')
    /\ collidersFile' = issued(collidersFile, writes')
    /\ UNCHANGED refused

----------------------------------------------------------------------------
(* Persistence writes *)

\* a rejected fs.writeFile that is not caught: the unhandled rejection ends
\* the process
failedWriteThrows(wasCrashed) == TRUE

\* what a rejected fs.writeFile does to the process: saveState, saveColliders
\* and saveObjects catch it and log, so nothing
failedWrite(wasCrashed) == wasCrashed

\* the file system settles an outstanding write, with success or with an
\* error: a write of colliders.json that succeeds leaves its content in the
\* file
writeSettles(w, ok) ==
    /\ ~crashed
    /\ w \in pending
    /\ pending' = pending \ {w}
    /\ collidersFile' = IF ok /\ w.file = "colliders"
                        THEN [collidersFile EXCEPT !.content = w.content]
                        ELSE collidersFile
    /\ lastOp' = IF ok THEN "write_done" ELSE "write_failed"
    /\ crashed' = IF ok THEN crashed ELSE failedWrite(crashed)
    /\ sent' = << >>
    /\ writes' = << >>
    /\ UNCHANGED << players, followers, objects, tick, lastTick, dynamicColliders,
                    objectColliders, clients, now, clock, refused >>

----------------------------------------------------------------------------
(* The server *)

Next ==
    \/ \E c \in Clients : Connect(c)
    \/ \E c \in Clients, pid \in 0 .. MaxPlayers : handleJoin(c, pid)
    \/ \E c \in Clients : handleDisconnect(c)
    \/ \E c \in Clients, input \in Inputs : handleInput(c, input)
    \/ \E c \in Clients : handleHug(c)
    \/ \E c \in Clients : handleBenchSit(c)
    \/ \E c \in Clients : handleBenchStand(c)
    \/ \E c \in Clients : handleResetPosition(c)
    \/ \E c \in Clients, data \in ColliderInputs : handlePlaceCollider(c, data)
    \/ \E c \in Clients, data \in ColliderInputs : handleRemoveCollider(c, data)
    \/ \E c \in Clients, data \in ObjectInputs : handlePlaceObject(c, data)
    \/ \E c \in Clients, data \in ObjectInputs : handleRemoveObject(c, data)
    \/ \E c \in Clients, payload \in OtherPayloads : handleMessage(c, payload)
    \/ \E file \in pending, ok \in BOOLEAN : writeSettles(file, ok)
    \/ gameTick
    \/ Advance

Spec == Init /\ [][Next]_vars

----------------------------------------------------------------------------
(* Scenarios.  The whole server has more states than can be enumerated, so  *)
(* each property is checked on a part of it: some of the saved states and   *)
(* the handlers that write what the property reads.                         *)

\* The room: connections come and go, players join under no id, a known id
\* or an unknown one, the timer ticks and time passes.
NextRoom ==
    \/ \E c \in Clients : Connect(c)
    \/ \E c \in Clients, pid \in 0 .. MaxPlayers : handleJoin(c, pid)
    \/ \E c \in Clients : handleDisconnect(c)
    \/ gameTick
    \/ Advance

SpecRoom == startServer(SavedStates) /\ [][NextRoom]_vars

\* Collider editing on a fresh server: players join under no id, leave, and
\* place and remove tiles.
NextColliders ==
    \/ \E c \in Clients : Connect(c)
    \/ \E c \in Clients, pid \in {0} : handleJoin(c, pid)
    \/ \E c \in Clients : handleDisconnect(c)
    \/ \E c \in Clients, data \in ColliderInputs : handlePlaceCollider(c, data)
    \/ \E c \in Clients, data \in ColliderInputs : handleRemoveCollider(c, data)

SpecColliders == startServer({<< >>}) /\ [][NextColliders]_vars

\* Hugs: the room, with two saved players within hugging distance (a third
\* may join, at a spawn point out of reach) and the hug request.
NextHug ==
    \/ \E c \in Clients : Connect(c)
    \/ \E c \in Clients, pid \in 0 .. MaxPlayers : handleJoin(c, pid)
    \/ \E c \in Clients : handleDisconnect(c)
    \/ \E c \in Clients : handleHug(c)
    \/ gameTick
    \/ Advance

SpecHug == startServer({SavedPair}) /\ [][NextHug]_vars

\* The bench: three saved players within sitting distance, who join under
\* their ids, leave, sit and stand.
NextBench ==
    \/ \E c \in Clients : Connect(c)
    \/ \E c \in Clients, pid \in 1 .. MaxPlayers : handleJoin(c, pid)
    \/ \E c \in Clients : handleDisconnect(c)
    \/ \E c \in Clients : handleBenchSit(c)
    \/ \E c \in Clients : handleBenchStand(c)

SpecBench == startServer({SavedAtBench}) /\ [][NextBench]_vars

\* Writes that overtake one another: joined connections place and remove one
\* tile, and the outstanding writes succeed in any order.
NextRace ==
    \/ \E c \in Clients : Connect(c)
    \/ \E c \in Clients, pid \in {0} : handleJoin(c, pid)
    \/ \E c \in Clients, data \in {d \in ColliderInputs : d.col = 20} :
         handlePlaceCollider(c, data)
    \/ \E c \in Clients, data \in {d \in ColliderInputs : d.col = 20} :
         handleRemoveCollider(c, data)
    \/ \E w \in pending, ok \in {TRUE} : writeSettles(w, ok)

SpecRace == startServer({<< >>}) /\ [][NextRace]_vars

\* The seats between ticks: two saved players within sitting distance join
\* under their ids, sit and stand while the ticks run.
NextSeat ==
    \/ \E c \in Clients : Connect(c)
    \/ \E c \in Clients, pid \in 1 .. 2 : handleJoin(c, pid)
    \/ \E c \in Clients : handleBenchSit(c)
    \/ \E c \in Clients : handleBenchStand(c)
    \/ gameTick

SpecSeat == startServer({SavedPair}) /\ [][NextSeat]_vars

\* a packet that holds the up and left keys
UpLeft == [kind |-> "keys", keys |-> {"up", "left"}, seq |-> 1]

\* Positions: every handler that writes a position.  One saved player, in
\* the corner of the world or at the bench, rejoins and a second one joins
\* at a spawn point; they walk up and left, hug, sit, stand and reset.
NextWorld ==
    \/ \E c \in Clients : Connect(c)
    \/ \E c \in Clients, pid \in 1 .. MAX_PLAYERS : handleJoin(c, pid)
    \/ \E c \in Clients, input \in {UpLeft} : handleInput(c, input)
    \/ \E c \in Clients : handleHug(c)
    \/ \E c \in Clients : handleBenchSit(c)
    \/ \E c \in Clients : handleBenchStand(c)
    \/ \E c \in Clients : handleResetPosition(c)
    \/ gameTick

SpecWorld == startServer({SavedAtCorner, SavedOne}) /\ [][NextWorld]_vars

\* One player saved at (100, 100), on open ground far from the bench.
SavedAtStart == << savedPlayer(100 * Scale, 100 * Scale) >>

\* the packets of the walk: right held down, and an object without keys
WalkInputs ==
    { [kind |-> "keys", keys |-> {"right"}, seq |-> 1],
      [kind |-> "nokeys", keys |-> {}, seq |-> 1] }

\* Walking: the saved player rejoins or a new one joins, inputs arrive,
\* time passes and ticks run.
NextWalk ==
    \/ \E c \in Clients : Connect(c)
    \/ \E c \in Clients, pid \in 0 .. 1 : handleJoin(c, pid)
    \/ \E c \in Clients, input \in WalkInputs : handleInput(c, input)
    \/ gameTick
    \/ Advance

SpecWalk == startServer({SavedAtStart}) /\ [][NextWalk]_vars

\* Leaving and coming back: the saved player joins under its id while it is
\* disconnected, holds the right key, leaves and joins again while the ticks
\* run.
NextRejoin ==
    \/ \E c \in Clients : Connect(c)
    \/ \E c \in Clients, pid \in {i \in {1} : ~players[i].connected} : handleJoin(c, pid)
    \/ \E c \in Clients, input \in {i \in WalkInputs : i.kind = "keys"} : handleInput(c, input)
    \/ \E c \in Clients : handleDisconnect(c)
    \/ gameTick

SpecRejoin == startServer({SavedAtStart}) /\ [][NextRejoin]_vars

\* Editing on a fresh server: players join under no id, leave, and place
\* and remove one collider tile and display objects.
NextEdit ==
    \/ \E c \in Clients : Connect(c)
    \/ \E c \in Clients, pid \in {0} : handleJoin(c, pid)
    \/ \E c \in Clients : handleDisconnect(c)
    \/ \E c \in Clients, data \in {d \in ColliderInputs : d.col # 21} : handlePlaceCollider(c, data)
    \/ \E c \in Clients, data \in {d \in ColliderInputs : d.col # 21} : handleRemoveCollider(c, data)
    \/ \E c \in Clients, data \in ObjectInputs : handlePlaceObject(c, data)
    \/ \E c \in Clients, data \in ObjectInputs : handleRemoveObject(c, data)

SpecEdit == startServer({<< >>}) /\ [][NextEdit]_vars

\* Every message type on a fresh server: connections that have joined under
\* no id and connections that have not send each of them, one tile and one
\* object being all there is to place.
NextMessages ==
    \/ \E c \in Clients : Connect(c)
    \/ \E c \in Clients, pid \in {0} : handleJoin(c, pid)
    \/ \E c \in Clients, input \in {UpLeft} : handleInput(c, input)
    \/ \E c \in Clients : handleResetPosition(c)
    \/ \E c \in Clients, data \in {d \in ColliderInputs : d.col = 20} :
         handlePlaceCollider(c, data)
    \/ \E c \in Clients, data \in {d \in ColliderInputs : d.col = 20} :
         handleRemoveCollider(c, data)
    \/ \E c \in Clients, data \in {d \in ObjectInputs : d.x = 100 * Scale} :
         handlePlaceObject(c, data)
    \/ \E c \in Clients, data \in {d \in ObjectInputs : d.id = 1} :
         handleRemoveObject(c, data)
    \/ \E c \in Clients : handleHug(c)
    \/ \E c \in Clients : handleBenchSit(c)
    \/ \E c \in Clients : handleBenchStand(c)
    \/ \E c \in Clients, payload \in OtherPayloads : handleMessage(c, payload)

SpecMessages == startServer({<< >>}) /\ [][NextMessages]_vars

\* Saving on a fresh server: joins and disconnections write the players, a
\* tile the colliders, an object the objects; the writes settle, well or
\* not, while ticks run.
NextStore ==
    \/ \E c \in Clients : Connect(c)
    \/ \E c \in Clients, pid \in {0} : handleJoin(c, pid)
    \/ \E c \in Clients : handleDisconnect(c)
    \/ \E c \in Clients, data \in {d \in ColliderInputs : d.col = 20} :
         handlePlaceCollider(c, data)
    \/ \E c \in Clients, data \in {d \in ObjectInputs : d.x = 100 * Scale} :
         handlePlaceObject(c, data)
    \/ \E file \in pending, ok \in BOOLEAN : writeSettles(file, ok)
    \/ gameTick

SpecStore == startServer({<< >>}) /\ [][NextStore]_vars

\* data of place_object and remove_object with sizes the client chose: the
\* default size, a negative width (Number.isFinite takes it), and a removal
SizedInputs ==
    { objectData(0, "xy", 100 * Scale, 100 * Scale, 0, 0, FALSE, 0, 0),
      objectData(0, "xy", 100 * Scale, 100 * Scale, 0, 0, TRUE, -200 * Scale, 72 * Scale),
      objectData(1, "none", 0, 0, 0, 0, FALSE, 0, 0) }

\* Objects of any size on a fresh server, the registry empty.
NextObjects ==
    \/ \E c \in Clients : Connect(c)
    \/ \E c \in Clients, pid \in {0} : handleJoin(c, pid)
    \/ \E c \in Clients, data \in SizedInputs : handlePlaceObject(c, data)
    \/ \E c \in Clients, data \in SizedInputs : handleRemoveObject(c, data)

SpecObjects == startServer({<< >>}) /\ [][NextObjects]_vars

\* Playing: the two saved players by the bench rejoin, hold up and left
\* down, hug and sit; time passes and ticks run.
NextPlay ==
    \/ \E c \in Clients : Connect(c)
    \/ \E c \in Clients, pid \in 1 .. 2 : handleJoin(c, pid)
    \/ \E c \in Clients, input \in {UpLeft} : handleInput(c, input)
    \/ \E c \in Clients : handleHug(c)
    \/ \E c \in Clients : handleBenchSit(c)
    \/ gameTick
    \/ Advance

SpecPlay == startServer({SavedPair}) /\ [][NextPlay]_vars

\* down and right held down
DownRight == [kind |-> "keys", keys |-> {"down", "right"}, seq |-> 1]

\* Sliding: players join at the spawn points of a fresh server, a collider
\* tile is placed on and removed from the second spawn tile, which lies up
\* and right of the first player, and the players walk down and right.
NextSlide ==
    \/ \E c \in Clients : Connect(c)
    \/ \E c \in Clients, pid \in {0} : handleJoin(c, pid)
    \/ \E c \in Clients, data \in {d \in ColliderInputs : d.col = 21} :
         handlePlaceCollider(c, data)
    \/ \E c \in Clients, data \in {d \in ColliderInputs : d.col = 21} :
         handleRemoveCollider(c, data)
    \/ \E c \in Clients, input \in {DownRight} : handleInput(c, input)
    \/ gameTick

SpecSlide == startServer({<< >>}) /\ [][NextSlide]_vars

----------------------------------------------------------------------------
(* Properties *)

\* the records that are seated, connected or not
seatedIds(ps) == {i \in DOMAIN ps : ps[i].sitting}

\* the messages of a type about player i that client c was sent
received(msgs, c, type, i) ==
    {k \in DOMAIN msgs : msgs[k].to = c /\ msgs[k].type = type /\ msgs[k].a = i}

\* C1: in every reachable state, whatever joins (repeated on one connection,
\* under known ids), disconnections and ticks led to it, at most two
\* players have connected = true.
C1_AtMostTwoConnected == Cardinality(connectedIds(players)) <= 2

\* a join was just refused while a third, disconnected record exists
C1_Witness ==
    /\ lastOp = "join"
    /\ Len(players) = 3
    /\ Cardinality(connectedIds(players)) = 2
    /\ \E c \in Clients : sent = << Msg(c, "error", 0, 0, {}) >>

\* C2: a join received while two players are connected sends one error, to
\* that connection only, creates no record, changes no record and leaves
\* every connection's playerId as it was.
C2_FullRoomJoinRefused ==
    [][\A c \in Clients, pid \in 0 .. MaxPlayers :
          (handleJoin(c, pid) /\ Cardinality(connectedIds(players)) = 2)
          => /\ sent' = << Msg(c, "error", 0, 0, {}) >>
             /\ writes' = << >>
             /\ players' = players
             /\ clients' = clients
             /\ followers' = followers]_vars

\* an unauthenticated connection was just refused and is still unauthenticated
C2_Witness ==
    /\ lastOp = "join"
    /\ Cardinality(connectedIds(players)) = 2
    /\ \E c \in Clients : /\ sent = << Msg(c, "error", 0, 0, {}) >>
                          /\ clients[c].playerId = 0
                          /\ \E d \in Clients \ {c} : clients[d].open

C4_HugStarts ==
    [][\A c \in Clients, a \in DOMAIN players, b \in DOMAIN players :
          (/\ handleHug(c)
           /\ clients[c].playerId = a
           /\ a # b
           /\ connectedIds(players) = {a, b}
           /\ ~players[a].hugging
           /\ ~players[b].hugging
           /\ ~FartherThan(players[a].x - players[b].x, players[a].y - players[b].y,
                           HUG_PROXIMITY_THRESHOLD * Scale))
          => /\ \A i \in {a, b} :
                   /\ players'[i].hugging
                   /\ players'[i].hugEndTime = now + HUG_DURATION
                   /\ 2 * players'[i].y <= players[a].y + players[b].y
                   /\ 2 * players'[i].y + 1 >= players[a].y + players[b].y
                   /\ players'[i].x = players[i].x
                   /\ players'[i].vx = 0
                   /\ players'[i].vy = 0
             /\ Len(sent') = Cardinality(openClients(clients))
             /\ \A d \in openClients(clients) :
                   \E k \in DOMAIN sent' : sent'[k] = Msg(d, "hug_started", a, b, {})]_vars

\* a hug just started between two players who stood at different heights
C4_Witness ==
    /\ lastOp = "hug"
    /\ Len(players) >= 2
    /\ players[1].hugging
    /\ players[2].hugging
    /\ players[1].y = players[2].y
    /\ players[1].y # SavedPair[1].y
    /\ players[2].y # SavedPair[2].y
    /\ \E k \in DOMAIN sent : sent[k].type = "hug_started"

\* C5: a tick that runs when a hug's hugEndTime has passed leaves its players,
\* connected or not, with hugging = false and sends every open client exactly
\* one hug_ended for each of them.
C5_HugEndsAtTick ==
    [][gameTick =>
          \A i \in DOMAIN players :
              (players[i].hugging /\ players[i].hugEndTime <= now)
              => /\ ~players'[i].hugging
                 /\ \A c \in openClients(clients) :
                       Cardinality(received(sent', c, "hug_ended", i)) = 1]_vars

\* C6: in every reachable state every hugging player has exactly one other
\* hugging player with the same hugEndTime.
C6_HugsComeInPairs ==
    \A i \in DOMAIN players :
        players[i].hugging
        => Cardinality({j \in DOMAIN players \ {i} :
                           /\ players[j].hugging
                           /\ players[j].hugEndTime = players[i].hugEndTime}) = 1

\* C7: at most two records, connected or not, are seated at any time, and a
\* bench_sit request made while two are seated changes no state.
C7_AtMostTwoSeated ==
    [][/\ Cardinality(seatedIds(players')) <= 2
       /\ \A c \in Clients :
             (handleBenchSit(c) /\ Cardinality(seatedIds(players)) = 2)
             => UNCHANGED << players, followers, clients >>]_vars

\* C8: in every reachable state every seated player is on one of the two
\* seats: x is BENCH_X plus or minus BENCH_SEAT_OFFSET and y is BENCH_Y.
C8_SeatedOnASeat ==
    \A i \in seatedIds(players) :
        /\ players[i].y = BENCH_Y * Scale
        /\ players[i].x \in {(BENCH_X - BENCH_SEAT_OFFSET) * Scale,
                             (BENCH_X + BENCH_SEAT_OFFSET) * Scale}

\* C9: a join under the id of an existing record, the room not being full,
\* makes that record connected, leaves its position where it was stored,
\* binds the connection to the id and adds no record.
C9_RejoinKeepsRecord ==
    [][\A c \in Clients, pid \in 1 .. MaxPlayers :
          (/\ handleJoin(c, pid)
           /\ pid \in DOMAIN players
           /\ Cardinality(connectedIds(players)) < 2)
          => /\ players'[pid].connected
             /\ players'[pid].x = players[pid].x
             /\ players'[pid].y = players[pid].y
             /\ clients'[c].playerId = pid
             /\ Len(players') = Len(players)
             /\ \A i \in DOMAIN players \ {pid} : players'[i] = players[i]]_vars

\* a saved player has just rejoined and stands where it was saved, which is
\* no spawn point
C9_Witness ==
    /\ lastOp = "join"
    /\ Len(players) = Len(SavedAtBench)
    /\ \E c \in Clients :
          /\ clients[c].playerId = 3
          /\ sent[1] = Msg(c, "welcome", 3, 0, connectedIds(players))
    /\ players[3] = [SavedAtBench[3] EXCEPT !.connected = TRUE]

\* C10: a remove_collider request for a tile that is not in the set leaves
\* the set as it was, sends no collider_removed and writes nothing.
C10_RemoveAbsentTile ==
    [][\A c \in Clients, data \in ColliderInputs :
          (handleRemoveCollider(c, data)
           /\ << data.col, data.row >> \notin dynamicColliders)
          => /\ dynamicColliders' = dynamicColliders
             /\ \A k \in DOMAIN sent' : sent'[k].type # "collider_removed"
             /\ writes' = << >>]_vars

\* an authenticated client's request for an absent tile has just been
\* dropped in silence while the set holds another tile
C10_Witness ==
    /\ lastOp = "remove_collider"
    /\ sent = << >>
    /\ writes = << >>
    /\ dynamicColliders # {}


\* C16: a player created by a join (no id or an unknown id) stands at
\* (328, 176) when nobody was connected and at (344, 176) when exactly one
\* player was connected
C16_SpawnPositions ==
    [][\A c \in Clients, pid \in 0 .. MaxPlayers :
         (/\ lastOp' = "join"
          /\ ~roomFull(players)
          /\ pid \notin DOMAIN players
          /\ handleJoin(c, pid))
         => LET p == players'[Len(players')]
            IN /\ Len(players') = Len(players) + 1
               /\ connectedCount(players) = 0
                  => (p.x = 328 * Scale /\ p.y = 176 * Scale)
               /\ connectedCount(players) = 1
                  => (p.x = 344 * Scale /\ p.y = 176 * Scale)]_vars

\* a join has just created a player on the second spawn tile while the player
\* on the first one is connected
C16_Witness ==
    /\ lastOp = "join"
    /\ players # << >>
    /\ players[Len(players)].connected
    /\ players[Len(players)].x = 344 * Scale
    /\ players[Len(players)].y = 176 * Scale
    /\ \E i \in DOMAIN players :
          /\ i # Len(players)
          /\ players[i].connected
          /\ players[i].x = 328 * Scale
          /\ players[i].y = 176 * Scale
    /\ \E c \in Clients : received(sent, c, "welcome", Len(players)) # {}

\* C19: a successful join sends the joining connection one welcome whose
\* players list holds the joining player and no player_joined, and sends
\* every other open connection player_joined; the close of a connection
\* bound to a player sends every other open connection player_left for it
C19_JoinAndLeaveEvents ==
    [][\A c \in Clients :
         /\ \A pid \in 0 .. MaxPlayers :
              (lastOp' = "join" /\ ~roomFull(players) /\ handleJoin(c, pid))
              => LET id == clients'[c].playerId
                 IN /\ Cardinality(received(sent', c, "welcome", id)) = 1
                    /\ \A k \in received(sent', c, "welcome", id) :
                          id \in sent'[k].ids
                    /\ \A k \in DOMAIN sent' :
                          sent'[k].to = c => sent'[k].type # "player_joined"
                    /\ \A d \in openClients(clients') \ {c} :
                          received(sent', d, "player_joined", id) # {}
         /\ (lastOp' = "close" /\ clients[c].playerId # 0 /\ handleDisconnect(c))
            => \A d \in openClients(clients') \ {c} :
                 received(sent', d, "player_left", clients[c].playerId) # {}]_vars

\* a join on one connection has just been answered with a welcome while
\* the other connection, open and bound to a player, was sent player_joined
C19_Witness ==
    /\ lastOp = "join"
    /\ \E c, d \in Clients :
          /\ c # d
          /\ clients[c].open /\ clients[c].playerId # 0
          /\ clients[d].open /\ clients[d].playerId # 0
          /\ received(sent, c, "welcome", clients[c].playerId) # {}
          /\ received(sent, d, "player_joined", clients[c].playerId) # {}
          /\ received(sent, c, "player_joined", clients[c].playerId) = {}

\* C17: a connected player at (100, 100), neither hugging nor seated, whose
\* stored input holds right only and whose way is free, stands at
\* (106.25, 100) after the tick that processes it, whatever time has passed
\* since the tick before
C17_OneStepRight ==
    [][\A i \in DOMAIN players :
         (/\ lastOp' = "tick"
          /\ gameTick
          /\ players[i].connected
          /\ ~(players[i].hugging \/ players[i].sitting)
          /\ players[i].x = 100 * Scale /\ players[i].y = 100 * Scale
          /\ players[i].lastInput.kind = "keys"
          /\ players[i].lastInput.keys = {"right"}
          /\ canMoveTo(10625, 100 * Scale)
          /\ \A j \in 1 .. i - 1 : ~inputThrows(players[j]))
         => (players'[i].x = 10625 /\ players'[i].y = 100 * Scale)]_vars

\* the first tick has just run, two seconds after the server started, and
\* moved the player from (100, 100) to (106.25, 100)
C17_Witness ==
    /\ lastOp = "tick"
    /\ tick = 1
    /\ now = ClockStep
    /\ lastTick = now
    /\ players[1].connected
    /\ players[1].lastInput.kind = "keys"
    /\ players[1].lastInput.keys = {"right"}
    /\ players[1].x = 10625
    /\ players[1].y = 100 * Scale

\* C18: every tick sends exactly one state_update to each open connection
\* that has a player id and none to any other connection, and the players
\* list of the snapshot holds exactly the connected players
C18_TickSnapshot ==
    [][(lastOp' = "tick" /\ gameTick)
       => \A c \in Clients :
            LET ups == {k \in DOMAIN sent' :
                          sent'[k].to = c /\ sent'[k].type = "state_update"}
            IN IF c \in stateRecipients(clients)
               THEN /\ Cardinality(ups) = 1
                    /\ \A k \in ups : sent'[k].ids = connectedIds(players')
               ELSE ups = {}]_vars

\* C15: a join refused because the room is full leaves the connection as it
\* was, open and without a player; it stays so until it joins or closes; and
\* its next join made while fewer than two players are connected is answered
\* with a welcome and binds it to a connected player
C15_RefusedCanRetry ==
    [][\A c \in Clients :
         /\ \A pid \in 0 .. MaxPlayers :
              (lastOp' = "join" /\ handleJoin(c, pid))
              => /\ roomFull(players)
                    => (/\ clients' = clients
                        /\ received(sent', c, "error", 0) # {}
                        /\ received(sent', c, "welcome", clients[c].playerId) = {})
                 /\ (c \in refused /\ ~roomFull(players))
                    => LET id == clients'[c].playerId
                       IN /\ id \in DOMAIN players'
                          /\ players'[id].connected
                          /\ clients'[c].open
                          /\ received(sent', c, "welcome", id) # {}
         /\ (c \in refused /\ clients'[c] # clients[c])
            => \/ lastOp' = "join" /\ clients'[c].open /\ clients'[c].playerId # 0
               \/ lastOp' = "close" /\ ~clients'[c].open]_vars

\* a connection that was refused while it had no player has now joined: the
\* welcome has just been sent and its player is connected
C15_Witness ==
    /\ lastOp = "join"
    /\ \E c \in refused :
          /\ clients[c].open
          /\ clients[c].playerId \in DOMAIN players
          /\ players[clients[c].playerId].connected
          /\ received(sent, c, "welcome", clients[c].playerId) # {}

\* the rectangle a place_object request asks for shares inner points with the
\* rectangle of an object of the registry
overlapsExisting(data) ==
    LET o == normalizeObjectData(data, objects)
        a == getObjectBounds(o)
    IN /\ o.valid
       /\ \E k \in DOMAIN objects :
            LET b == getObjectBounds(objects[k])
            IN a.left < b.right /\ b.left < a.right /\ a.top < b.bottom /\ b.top < a.bottom

editRejected(c) ==
    /\ dynamicColliders' = dynamicColliders
    /\ objectColliders' = objectColliders
    /\ objects' = objects
    /\ \A k \in DOMAIN sent' : sent'[k].type = "error" /\ sent'[k].to = c

\* C14: a place_collider or remove_collider whose coordinates are not
\* integers, a place_collider outside the tile grid, and a place_object whose
\* coordinates are not finite or lie outside the world change neither the
\* obstacles nor the registry and broadcast nothing
C14_InvalidEditsChangeNothing ==
    [][\A c \in Clients :
         /\ \A data \in ColliderInputs :
              /\ (lastOp' = "place_collider" /\ handlePlaceCollider(c, data)
                  /\ (\/ ~data.integer
                      \/ data.col < 0 \/ data.col >= MAP_COLS
                      \/ data.row < 0 \/ data.row >= MAP_ROWS))
                 => editRejected(c)
              /\ (lastOp' = "remove_collider" /\ handleRemoveCollider(c, data)
                  /\ ~data.integer)
                 => editRejected(c)
         /\ \A data \in ObjectInputs :
              (lastOp' = "place_object" /\ handlePlaceObject(c, data)
               /\ (\/ data.coords = "none"
                   \/ data.coords = "xy"
                      /\ (\/ data.x < 0 \/ data.x > WORLD_WIDTH
                          \/ data.y < 0 \/ data.y > WORLD_HEIGHT)))
              => editRejected(c)]_vars

\* a joined connection's place_collider for a tile outside the grid has just
\* been ignored, while a tile and an object are there to be kept
C14_Witness ==
    /\ lastOp = "place_collider"
    /\ sent = << >>
    /\ writes = << >>
    /\ dynamicColliders # {}
    /\ objects # << >>
    /\ objectColliders # {}

\* client c sends a message of one of the nine types other than join
sendsNonJoin(c) ==
    \/ \E input \in Inputs \cup {UpLeft} : handleInput(c, input)
    \/ handleResetPosition(c)
    \/ \E data \in ColliderInputs : handlePlaceCollider(c, data)
    \/ \E data \in ColliderInputs : handleRemoveCollider(c, data)
    \/ \E data \in ObjectInputs : handlePlaceObject(c, data)
    \/ \E data \in ObjectInputs : handleRemoveObject(c, data)
    \/ handleHug(c)
    \/ handleBenchSit(c)
    \/ handleBenchStand(c)

\* C12: a message of any type but join on a connection that has not joined
\* is answered with one error to that connection, and players, followers,
\* collider tiles, objects, object colliders and the tick counter stay as
\* they were
C12_NotJoinedIsRefused ==
    [][\A c \in Clients :
         (clients[c].playerId = 0 /\ sendsNonJoin(c))
         => /\ sent' = << Msg(c, "error", 0, 0, {}) >>
            /\ UNCHANGED << players, followers, dynamicColliders, objects,
                            objectColliders, tick, clients >>]_vars

\* a hug request on a connection that has not joined has just been answered
\* with an error, while players are connected and a tile and an object exist
C12_Witness ==
    /\ lastOp = "hug"
    /\ \E c \in Clients :
          /\ clients[c].open
          /\ clients[c].playerId = 0
          /\ sent = << Msg(c, "error", 0, 0, {}) >>
    /\ connectedCount(players) = 2
    /\ dynamicColliders # {}
    /\ objects # << >>

\* C13: a malformed payload and a message of an unknown type are dropped in
\* silence: nothing is sent to any connection, the world and the connection
\* stay as they were
C13_BadMessageDropped ==
    [][\A c \in Clients, payload \in OtherPayloads :
         (lastOp' = payload /\ handleMessage(c, payload))
         => /\ sent' = << >>
            /\ UNCHANGED << players, followers, dynamicColliders, objects,
                            objectColliders, tick, clients >>]_vars

\* C20: a persistence write that fails changes nothing in memory, sends
\* nothing and does not end the process; the handler that issued it had
\* already returned, and the tick that follows runs to its end
C20_FailedWriteIsHarmless ==
    [][/\ \A file \in pending :
            (lastOp' = "write_failed" /\ writeSettles(file, FALSE))
            => /\ UNCHANGED << players, followers, objects, tick, lastTick,
                               dynamicColliders, objectColliders, clients >>
               /\ sent' = << >>
               /\ ~crashed'
       /\ (lastOp = "write_failed" /\ lastOp' = "tick")
          => /\ tick' = tick + 1
             /\ \A c \in stateRecipients(clients) :
                  received(sent', c, "state_update", tick') # {}]_vars

\* a write has just failed while players are connected, a tile and an object
\* exist; the server runs on
C20_Witness ==
    /\ lastOp = "write_failed"
    /\ ~crashed
    /\ connectedCount(players) > 0
    /\ dynamicColliders # {}
    /\ objects # << >>
    /\ tick > 0

\* C21: whatever messages the server accepted before it, input messages
\* without keys among them, every tick runs to its end: the process lives,
\* the tick counter grows by one and the snapshot of that tick is sent
C21_NoMessageIsFatal ==
    [][(lastOp' = "tick" /\ gameTick)
       => /\ ~crashed'
          /\ tick' = tick + 1
          /\ \A c \in stateRecipients(clients) :
               received(sent', c, "state_update", tick') # {}]_vars

\* the rectangles two objects span, each between its two vertical and its
\* two horizontal edges, share inner points
spansOverlap(objectA, objectB) ==
    LET a == getObjectBounds(objectA)
        b == getObjectBounds(objectB)
    IN /\ Min(a.left, a.right) < Max(b.left, b.right)
       /\ Min(b.left, b.right) < Max(a.left, a.right)
       /\ Min(a.top, a.bottom) < Max(b.top, b.bottom)
       /\ Min(b.top, b.bottom) < Max(a.top, a.bottom)

\* C22: whatever place_object and remove_object requests were made, with
\* whatever finite widths and heights, no two objects of the registry have
\* overlapping rectangles
C22_NoTwoObjectsOverlap ==
    \A i, j \in DOMAIN objects : i # j => ~spansOverlap(objects[i], objects[j])

\* C23: in every state the ids of the object colliders are the ids of the
\* objects of the registry, one collider for each object
C23_CollidersMatchRegistry ==
    /\ {r.id : r \in objectColliders} = {objects[k].id : k \in DOMAIN objects}
    /\ Cardinality(objectColliders) = Len(objects)
    /\ \A k \in DOMAIN objects : objectCollider(objects[k]) \in objectColliders

\* an object has just been removed while another one stays, with its collider
C23_Witness ==
    /\ lastOp = "remove_object"
    /\ Len(objects) = 1
    /\ \E c \in Clients : received(sent, c, "object_removed", 1) # {}
    /\ objects[1].id = 2
    /\ \E r \in objectColliders : r.id = 2

\* C24: in a tick the expired hugs end first, so that a player whose hug
\* ends in this tick has its stored input applied in it; then the inputs are
\* applied; then the followers move towards the players' new positions; then
\* the tick counter grows by one; then the snapshot is sent, carrying the new
\* tick value, after the hug_ended messages
C24_TickOrder ==
    [][(lastOp' = "tick" /\ gameTick)
       => /\ \A i \in DOMAIN players :
               hugExpires(players[i], now)
               => /\ ~players'[i].hugging
                  /\ (players[i].lastInput.kind = "keys" /\ ~players[i].sitting)
                     => players'[i] =
                          processPlayerInput([players[i] EXCEPT !.hugging = FALSE,
                                                                !.hugEndTime = 0],
                                             players[i].lastInput)
          /\ followers' = updateFollowers(players', followers, clampedDelta)
          /\ tick' = tick + 1
          /\ \A k \in DOMAIN sent' :
               /\ sent'[k].type \in {"hug_ended", "state_update"}
               /\ sent'[k].type = "state_update" => sent'[k].a = tick'
               /\ sent'[k].type = "state_update"
                  => \A j \in DOMAIN sent' : sent'[j].type = "hug_ended" => j < k]_vars

\* the first tick has just ended the hug of player 1 and moved it to the left
\* by its stored input, and the snapshot of tick 1 went out after hug_ended
C24_Witness ==
    /\ lastOp = "tick"
    /\ tick = 1
    /\ players[1].connected
    /\ ~players[1].hugging
    /\ players[1].x < SavedPair[1].x
    /\ \E c \in Clients :
          /\ received(sent, c, "hug_ended", 1) # {}
          /\ received(sent, c, "state_update", 1) # {}

\* C25: a connected player that is seated, or hugging once the tick has
\* ended the expired hugs, ends the tick with velocity (0, 0) and with the
\* position and the lastInputSeq it had, whatever input is stored for it
C25_HeldPlayersStay ==
    [][\A i \in DOMAIN players :
         (/\ lastOp' = "tick"
          /\ gameTick
          /\ players[i].connected
          /\ players[i].sitting \/ players'[i].hugging)
         => /\ players'[i].vx = 0 /\ players'[i].vy = 0
            /\ players'[i].x = players[i].x /\ players'[i].y = players[i].y
            /\ players'[i].lastInputSeq = players[i].lastInputSeq]_vars

\* a tick has just passed over a seated player and a hugging player, both
\* with up and left stored, while the sequence number 1 was never taken
C25_Witness ==
    /\ lastOp = "tick"
    /\ \E i, j \in DOMAIN players :
          /\ i # j
          /\ players[i].connected /\ players[i].sitting
          /\ players[j].connected /\ players[j].hugging
          /\ players[i].lastInput = UpLeft /\ players[j].lastInput = UpLeft
          /\ players[i].lastInputSeq = 0 /\ players[j].lastInputSeq = 0
          /\ players[i].vx = 0 /\ players[j].vx = 0

\* C26: an input message replaces the stored packet whatever it was; a tick
\* moves a player by its stored packet alone, one step of it, and leaves the
\* packet stored, so that the next tick applies it again
C26_LastPacketEveryTick ==
    [][/\ \A c \in Clients, input \in WalkInputs :
            (lastOp' = "input" /\ handleInput(c, input) /\ playerError(c) = "")
            => players'[clients[c].playerId].lastInput = input
       /\ \A i \in DOMAIN players :
            (/\ lastOp' = "tick"
             /\ gameTick
             /\ players[i].connected
             /\ players[i].lastInput.kind = "keys"
             /\ \A j \in 1 .. i - 1 : ~inputThrows(players[j]))
            => /\ players'[i].lastInput = players[i].lastInput
               /\ players'[i].x
                    = players[i].x + stepOf(axisVelocity(players[i].lastInput.keys,
                                                         "left", "a", "right", "d"))
               /\ players'[i].y = players[i].y]_vars

\* the second tick has just applied the packet the first one applied: the
\* saved player, with right held down, stands two steps from where it was
C26_Witness ==
    /\ lastOp = "tick"
    /\ tick = 2
    /\ players[1].connected
    /\ players[1].lastInput.kind = "keys"
    /\ players[1].x = SavedAtStart[1].x + 2 * 625

\* C27: an input message accepted for a connected player replaces the
\* stored packet and makes lastInputSeq the larger of what it was and the
\* packet's sequence number; lastInputSeq never decreases
C27_SeqRecordedOnReceipt ==
    [][/\ \A c \in Clients, input \in WalkInputs :
            (lastOp' = "input" /\ handleInput(c, input) /\ playerError(c) = "")
            => LET pid == clients[c].playerId
               IN /\ players'[pid].lastInput = input
                  /\ players'[pid].lastInputSeq
                       = Max(players[pid].lastInputSeq, input.seq)
       /\ \A i \in DOMAIN players :
            players'[i].lastInputSeq >= players[i].lastInputSeq]_vars

\* C28: a tick moves a player one axis at a time.  The step along x is taken
\* if and only if none of the nine sample points around (x + step, y) is
\* collidable; if not, x stays and vx becomes 0.  The step along y is then
\* tried from the x so reached, in the same way.
C28_AxisByAxis ==
    [][\A i \in DOMAIN players :
         (/\ lastOp' = "tick"
          /\ gameTick
          /\ players[i].connected
          /\ ~(players[i].hugging \/ players[i].sitting)
          /\ players[i].lastInput.kind = "keys")
         => LET p == players[i]
                keys == p.lastInput.keys
                rawX == axisVelocity(keys, "left", "a", "right", "d")
                rawY == axisVelocity(keys, "up", "w", "down", "s")
                vx == normalize(rawX, rawY)
                vy == normalize(rawY, rawX)
                free(x, y) ==
                    \A pt \in checkPoints : ~isCollidable(x + pt[1], y + pt[2])
                movesX == vx # 0 /\ free(p.x + stepOf(vx), p.y)
                x1 == IF movesX THEN p.x + stepOf(vx) ELSE p.x
                movesY == vy # 0 /\ free(x1, p.y + stepOf(vy))
                y1 == IF movesY THEN p.y + stepOf(vy) ELSE p.y
            IN /\ players'[i].x = clampAxis(x1, WORLD_WIDTH)
               /\ players'[i].y = clampAxis(y1, WORLD_HEIGHT)
               /\ players'[i].vx = IF movesX THEN vx ELSE 0
               /\ players'[i].vy = IF movesY THEN vy ELSE 0]_vars

\* a tick has just moved the player at the first spawn point down but not
\* right, the collider tile up and right of it being in the way of x alone:
\* vx is 0 and vy is the diagonal speed
C28_Witness ==
    /\ lastOp = "tick"
    /\ dynamicColliders = {<< 21, 10 >>}
    /\ players[1].connected
    /\ players[1].lastInput = DownRight
    /\ players[1].x = spawnX(SPAWN_POINTS[1])
    /\ players[1].y > spawnY(SPAWN_POINTS[1])
    /\ players[1].vx = 0
    /\ players[1].vy > 0

\* C29: in every state each follower targets nobody or a connected player,
\* and when no player is connected every follower targets nobody and stands
\* still
C29_FollowersTargetConnected ==
    /\ \A k \in DOMAIN followers :
          \/ followers[k].targetPlayerId = 0
          \/ /\ followers[k].targetPlayerId \in DOMAIN players
             /\ players[followers[k].targetPlayerId].connected
    /\ connectedCount(players) = 0
       => \A k \in DOMAIN followers :
            /\ followers[k].targetPlayerId = 0
            /\ followers[k].vx = 0 /\ followers[k].vy = 0

\* the last connected player has just left, after ticks in which the
\* follower went after it
C29_Witness ==
    /\ lastOp = "close"
    /\ tick > 0
    /\ players # << >>
    /\ connectedCount(players) = 0
    /\ \E k \in DOMAIN followers :
          followers[k].x # spawnX(SPAWN_POINTS[1]) \/ followers[k].y # spawnY(SPAWN_POINTS[1])

\* the last handler answered with nothing but errors, or not at all: the
\* request was turned down
turnedDown ==
    \A k \in DOMAIN sent' : sent'[k].type = "error"

\* C30: a place_collider or remove_collider that changes the dynamic tiles
\* issues, in the same handler, exactly one write of the colliders document
\* whose content is the set of tiles as the handler leaves it; a place_object
\* or remove_object that changes the registry issues exactly one write of the
\* objects document whose content is the registry as the handler leaves it;
\* a request that is turned down (invalid, overlapping, absent tile, no
\* object there) issues no write
C30_EditsArePersisted ==
    [][/\ lastOp' \in {"place_collider", "remove_collider"} =>
            /\ dynamicColliders' # dynamicColliders =>
                  writes' = << [file |-> "colliders",
                                content |-> dynamicColliders'] >>
            /\ turnedDown =>
                  writes' = << >> /\ dynamicColliders' = dynamicColliders
            /\ objects' = objects
       /\ lastOp' \in {"place_object", "remove_object"} =>
            /\ objects' # objects =>
                  writes' = << [file |-> "objects", content |-> objects'] >>
            /\ turnedDown =>
                  writes' = << >> /\ objects' = objects
            /\ dynamicColliders' = dynamicColliders]_vars

\* a tile has just been placed while an object is in the registry: the
\* colliders document written holds the tile
C30_Witness ==
    /\ lastOp = "place_collider"
    /\ dynamicColliders # {}
    /\ objects # << >>
    /\ writes = << [file |-> "colliders", content |-> dynamicColliders] >>

\* the player is within the sitting distance of the bench
nearBench(p) ==
    ~FartherThan(p.x - BENCH_X * Scale, p.y - BENCH_Y * Scale,
                 BENCH_SIT_DISTANCE * Scale)

\* C31: a bench_sit succeeds exactly when the requester is connected, not
\* seated, within 100 of the bench and fewer than two players are seated;
\* it then puts the requester at the bench's x plus the seat offset when
\* nobody is seated and minus the offset when one player is, at the bench's
\* y, at rest and seated; any other bench_sit changes no player
C31_SitSucceedsIff ==
    [][\A c \in Clients :
         (lastOp' = "bench_sit" /\ handleBenchSit(c)) =>
            LET pid == clients[c].playerId
                count == Cardinality(seatedIds(players))
            IN IF /\ pid \in DOMAIN players
                  /\ players[pid].connected
                  /\ ~players[pid].sitting
                  /\ nearBench(players[pid])
                  /\ count < 2
               THEN players' =
                      [players EXCEPT ![pid] =
                         [@ EXCEPT !.x = IF count = 0
                                         THEN (BENCH_X + BENCH_SEAT_OFFSET) * Scale
                                         ELSE (BENCH_X - BENCH_SEAT_OFFSET) * Scale,
                                   !.y = BENCH_Y * Scale,
                                   !.vx = 0, !.vy = 0, !.sitting = TRUE]]
               ELSE players' = players]_vars

\* C32: a bench_stand from a connection whose player is seated always
\* succeeds: the player is no longer seated, is at rest, and stands at the
\* bench's x plus the stand-off when it sat on the seat with the positive
\* offset and minus the stand-off when it sat on the other one, at the
\* bench's y; a bench_stand from a player that is not seated changes nothing
C32_StandAlwaysSucceeds ==
    [][\A c \in Clients :
         (lastOp' = "bench_stand" /\ handleBenchStand(c)
          /\ clients[c].playerId \in DOMAIN players) =>
            LET pid == clients[c].playerId
                p == players[pid]
            IN IF p.sitting
               THEN players' =
                      [players EXCEPT ![pid] =
                         [p EXCEPT !.x = IF p.x = (BENCH_X + BENCH_SEAT_OFFSET) * Scale
                                         THEN (BENCH_X + STAND_OFFSET) * Scale
                                         ELSE (BENCH_X - STAND_OFFSET) * Scale,
                                   !.y = BENCH_Y * Scale,
                                   !.vx = 0, !.vy = 0, !.sitting = FALSE]]
               ELSE UNCHANGED << players, followers, objects, tick,
                                 dynamicColliders, objectColliders, clients >>]_vars

\* C33: a bench_sit or bench_stand that succeeds sends, in the handler, one
\* state_update to every open connection with a player, the requester among
\* them, and leaves the tick counter as it is; every state_update carries
\* the tick counter's value, and only a tick changes the counter, by one: the
\* tick values of successive state_update messages never decrease
C33_SeatSnapshots ==
    [][/\ \A c \in Clients :
            (/\ lastOp' \in {"bench_sit", "bench_stand"}
             /\ handleBenchSit(c) \/ handleBenchStand(c)
             /\ players' # players) =>
               /\ tick' = tick
               /\ received(sent', c, "state_update", tick) # {}
               /\ \A d \in Clients :
                     (clients[d].open /\ clients[d].playerId # 0) =>
                        Cardinality(received(sent', d, "state_update", tick)) = 1
       /\ \A k \in DOMAIN sent' :
             sent'[k].type = "state_update" => sent'[k].a = tick'
       /\ \/ tick' = tick
          \/ tick' = tick + 1 /\ lastOp' = "tick"]_vars

\* after a tick a player has just stood up, and the snapshot sent by
\* bench_stand carries the tick counter's value, which the tick had raised
C33_Witness ==
    /\ lastOp = "bench_stand"
    /\ tick >= 1
    /\ \E c \in Clients : received(sent, c, "state_update", tick) # {}
    /\ \E i \in DOMAIN players : players[i].connected /\ players[i].sitting

\* the open connections bound to player i
boundTo(i) == {c \in Clients : clients[c].open /\ clients[c].playerId = i}

\* C34: every player with connected = true is the player of at least one
\* open connection, so that some connection's closing can disconnect it
C34_ConnectedPlayersAreBound ==
    \A i \in DOMAIN players : players[i].connected => boundTo(i) # {}

\* C35: while a connection bound to a player stays open and bound to it, the
\* player's connected stays true, whatever else happens: in particular the
\* closing of another connection, even one that joined under the same id,
\* does not mark the player disconnected
C35_BoundPlayerStaysConnected ==
    [][\A d \in Clients :
         (/\ clients[d].open /\ clients'[d].open
          /\ clients[d].playerId # 0
          /\ clients'[d].playerId = clients[d].playerId
          /\ players[clients[d].playerId].connected)
         => players'[clients[d].playerId].connected]_vars

\* C36: two players seated at the same time, both connected, are on
\* different seats, however their bench_sit and bench_stand requests
\* interleave
C36_SeatsAreDistinct ==
    \A i, j \in DOMAIN players :
       (/\ i # j
        /\ players[i].connected /\ players[i].sitting
        /\ players[j].connected /\ players[j].sitting)
       => << players[i].x, players[i].y >> # << players[j].x, players[j].y >>

\* C37: the tick that follows a join moves the joined player not at all: no
\* input has arrived on the new connection yet, and an input stored before
\* the player left is not applied after it came back
C37_NoStaleInputAfterRejoin ==
    [][(/\ lastOp = "join"
        /\ sent # << >>
        /\ sent[1].type = "welcome"
        /\ gameTick)
       => LET pid == sent[1].a
          IN /\ players'[pid].x = players[pid].x
             /\ players'[pid].y = players[pid].y]_vars

\* C38: no player is hugging and seated at the same time
C38_NeverHuggingAndSeated ==
    \A i \in DOMAIN players : ~(players[i].hugging /\ players[i].sitting)

\* C39: a hug request whose sender is already hugging, or has no other
\* connected player, or whose other player is already hugging or farther
\* away than the proximity threshold, changes no player (position, velocity,
\* hugging, hugEndTime) and sends no hug_started: a running hug's end time
\* is never moved
C39_FailedHugChangesNothing ==
    [][\A c \in Clients :
         (lastOp' = "hug" /\ handleHug(c)
          /\ clients[c].playerId \in DOMAIN players) =>
            LET pid == clients[c].playerId
                others == connectedIds(players) \ {pid}
            IN (\/ players[pid].hugging
                \/ others = {}
                \/ \E o \in others :
                      \/ players[o].hugging
                      \/ FartherThan(players[pid].x - players[o].x,
                                     players[pid].y - players[o].y,
                                     HUG_PROXIMITY_THRESHOLD * Scale))
               => /\ players' = players
                  /\ \A k \in DOMAIN sent' : sent'[k].type # "hug_started"]_vars

\* time has passed since a hug started, and a new hug request by one of the
\* two has just been ignored: the hug still ends when it was to end
C39_Witness ==
    /\ lastOp = "hug"
    /\ sent = << >>
    /\ \E c \in Clients :
          /\ clients[c].open
          /\ clients[c].playerId \in DOMAIN players
          /\ players[clients[c].playerId].connected
          /\ players[clients[c].playerId].hugging
          /\ players[clients[c].playerId].hugEndTime < now + HUG_DURATION

\* C40: in whatever order the outstanding writes complete, once all of them
\* have completed colliders.json holds what the write of it that was issued
\* last captured, which is the set of tiles in memory
C40_LastWriteWins ==
    pending = {} =>
       /\ collidersFile.content = collidersFile.latest
       /\ collidersFile.content = dynamicColliders

====
